---- MODULE Spec2Model ----
(***************************************************************************)
(* The routed resource loading of the documentation website                *)
(* (website/src/main.rs): the route table, the document resource created   *)
(* per run of the view closure of `switch`, the sidebar signal             *)
(* `cached_sidebar_data` filled by the task `switch` spawns, and the view  *)
(* the closure returns.                                                    *)
(*                                                                         *)
(* A URL path is the sequence of its non-empty segments.  A fetched        *)
(* payload is identified by the URL it was fetched from.  A panic          *)
(* (unwrap on Err, todo!) aborts the program: `crashed` becomes TRUE and   *)
(* no handler runs any more.                                               *)
(***************************************************************************)
EXTENDS Integers, Sequences, FiniteSets, TLC

VARIABLES
    url,                  \* the location: the path last handed to the router
    route,                \* route.get_clone(): the resolved Routes value
    made,                 \* number of document resources created so far
    cur,                  \* the resource `data` of the live closure run (0: none)
    data,                 \* data.get_clone() of that resource: None or Some(page)
    docFetches,           \* docs_preload requests still outstanding
    cached_sidebar_data,  \* the signal of line 74: None or Some((version, data))
    sidebarFetches,       \* get_sidebar requests still outstanding
    sidebarStarted,       \* number of get_sidebar requests started so far
    crashed,              \* a panic has aborted the program
    view,                 \* what the view closure last returned
    navs,                 \* number of route changes after the first render
    lastOp,               \* history: the step taken last
    lastEnsure            \* history: the last entry into a route that shows a sidebar

vars == <<url, route, made, cur, data, docFetches, cached_sidebar_data,
          sidebarFetches, sidebarStarted, crashed, view, navs, lastOp, lastEnsure>>

----------------------------------------------------------------------------
(* Bounds *)

\* route changes after the first render
MaxNav == 3
\* route changes after the first render, in the fair specification
MaxNavFair == 2
\* longest URL path, in segments, of the wide specification
MaxSegs == 4
\* direct calls of get_sidebar in the wide specification
MaxSidebarCalls == 1

\* path segments: the literals of the route table and two free names
Seg == {"docs", "news", "versions", "v1", "a"}

\* Option<T>
None == [some |-> FALSE]
Some(x) == [some |-> TRUE, val |-> x]

Min(S) == CHOOSE x \in S : \A y \in S : x <= y

----------------------------------------------------------------------------
(* Routes: the enum and its #[to(...)] patterns *)

Route(tag, args) == [tag |-> tag, args |-> args]

Lit(s) == [lit |-> TRUE, s |-> s]
Param == [lit |-> FALSE, s |-> "_"]

\* a table whose Docs pattern takes any first segment
RoutePatterns_docsAnyPrefix ==
    << [tag |-> "Index",         pat |-> << >>],
       [tag |-> "Docs",          pat |-> <<Param, Param>>],
       [tag |-> "VersionedDocs", pat |-> <<Lit("docs"), Param, Param, Param>>],
       [tag |-> "NewsIndex",     pat |-> <<Lit("news")>>],
       [tag |-> "Post",          pat |-> <<Lit("news"), Param>>],
       [tag |-> "Versions",      pat |-> <<Lit("versions")>>] >>

\* the variants of Routes with a #[to] pattern, in declaration order
RoutePatterns ==
    << [tag |-> "Index",         pat |-> << >>],
       [tag |-> "Docs",          pat |-> <<Lit("docs"), Param, Param>>],
       [tag |-> "VersionedDocs", pat |-> <<Lit("docs"), Param, Param, Param>>],
       [tag |-> "NewsIndex",     pat |-> <<Lit("news")>>],
       [tag |-> "Post",          pat |-> <<Lit("news"), Param>>],
       [tag |-> "Versions",      pat |-> <<Lit("versions")>>] >>

\* a pattern matches a path of its own length whose literal segments agree
Matches(pat, path) ==
    /\ Len(pat) = Len(path)
    /\ \A i \in 1..Len(pat) : pat[i].lit => pat[i].s = path[i]

\* the segments captured by the <_> parameters, in order
RECURSIVE CapturesFrom(_, _, _)
CapturesFrom(pat, path, i) ==
    IF i > Len(pat) THEN << >>
    ELSE IF pat[i].lit THEN CapturesFrom(pat, path, i + 1)
    ELSE <<path[i]>> \o CapturesFrom(pat, path, i + 1)

\* Route::match_route: the first variant whose pattern matches, else #[not_found]
match_route(path) ==
    LET hits == {i \in 1..Len(RoutePatterns) : Matches(RoutePatterns[i].pat, path)}
    IN  IF hits = {} THEN Route("NotFound", << >>)
        ELSE LET p == RoutePatterns[Min(hits)]
             IN  Route(p.tag, CapturesFrom(p.pat, path, 1))

----------------------------------------------------------------------------
(* Fetch keys *)

\* format!("/static/docs/{a}/{b}.json")
DocsUrl(a, b) == "/static/docs/" \o a \o "/" \o b \o ".json"

\* a versioned arm that leaves the version out of the url
VersionedDocsUrl_noVersion(version, a, b) == "/static/docs/" \o a \o "/" \o b \o ".json"

\* format!("/static/docs/{version}/{a}/{b}.json")
VersionedDocsUrl(version, a, b) ==
    "/static/docs/" \o version \o "/" \o a \o "/" \o b \o ".json"

\* format!("/static/posts/{name}.json")
PostUrl(name) == "/static/posts/" \o name \o ".json"

\* the url of get_sidebar(version)
get_sidebar_url(version) ==
    IF version.some
    THEN "/static/docs/" \o version.val \o "/sidebar.json"
    ELSE "/static/docs/sidebar.json"

\* the arms of the view closure that create a resource
HasDocument(r) == r.tag \in {"Docs", "VersionedDocs", "Post"}

\* the url handed to docs_preload by the arm of r
DocUrl(r) ==
    CASE r.tag = "Docs" -> DocsUrl(r.args[1], r.args[2])
      [] r.tag = "VersionedDocs" -> VersionedDocsUrl(r.args[1], r.args[2], r.args[3])
      [] r.tag = "Post" -> PostUrl(r.args[1])
      [] OTHER -> ""

\* format!("{a}/{b}"), the path signal of the two docs arms
SidebarPath(r) ==
    CASE r.tag = "Docs" -> r.args[1] \o "/" \o r.args[2]
      [] r.tag = "VersionedDocs" -> r.args[2] \o "/" \o r.args[3]
      [] OTHER -> ""

\* the payloads, named by the URL they were read from (by: the resource
\* whose request read it)
Page(u, i) == [from |-> u, by |-> i]
SidebarDataOf(u) == [from |-> u]

----------------------------------------------------------------------------
(* The view closure *)

Empty == [kind |-> "Empty", doc |-> None, sidebar |-> None]
Static(k) == [kind |-> k, doc |-> None, sidebar |-> None]

\* SidebarCurrent { version, path, data: cached_sidebar_data.1 }
SidebarCurrent(version, path, c) ==
    [version |-> version, path |-> path, data |-> c.data]

\* a docs arm that shows the document without waiting for the sidebar
DocsView_noSidebarCheck(version, r, d, c) ==
    IF d.some
    THEN [kind |-> "Content", doc |-> d,
          sidebar |-> IF c.some THEN Some(SidebarCurrent(version, SidebarPath(r), c.val))
                      ELSE None]
    ELSE Empty

\* the view! of the Docs and VersionedDocs arms
DocsView(version, r, d, c) ==
    IF d.some
    THEN IF c.some
         THEN [kind |-> "Content", doc |-> d,
               sidebar |-> Some(SidebarCurrent(version, SidebarPath(r), c.val))]
         ELSE Empty
    ELSE Empty

\* the view! of the Post arm
PostView(d) ==
    IF d.some THEN [kind |-> "Content", doc |-> d, sidebar |-> None] ELSE Empty

\* one run of the view closure on route r, with data.get_clone() = d and
\* cached_sidebar_data.get_clone() = c
Render(r, d, c) ==
    CASE r.tag = "Index" -> Static("Index")
      [] r.tag = "Docs" -> DocsView("next", r, d, c)
      [] r.tag = "VersionedDocs" -> DocsView(r.args[1], r, d, c)
      [] r.tag = "NewsIndex" -> Static("NewsIndex")
      [] r.tag = "Post" -> PostView(d)
      [] r.tag = "Versions" -> Static("Versions")
      [] OTHER -> Static("404 Not Found")

\* a resource hoisted out of the closure: it keeps the value it had
FreshResource_shared(old) == old

\* create_client_resource inside the arm: a new resource per run of the
\* closure, with no value until its own request resolves
FreshResource(old) == None

\* the request docs_preload(&url) of the resource i created for route r
DocRequests(r, i) ==
    IF HasDocument(r) THEN {[inst |-> i, url |-> DocUrl(r)]} ELSE {}

----------------------------------------------------------------------------
(* The sidebar signal *)

\* the version a route asks a sidebar for
ReqVersion(r) == IF r.tag = "VersionedDocs" THEN Some(r.args[1]) ELSE None
RequiresSidebar(r) == r.tag \in {"Docs", "VersionedDocs"}

SidebarRequest(id, version) ==
    [id |-> id, version |-> version, url |-> get_sidebar_url(version)]

\* a test that takes an absent entry for a fresh one
SidebarStale_absentIsFresh(c) == c.some /\ c.val.version.some

\* the test of line 76
SidebarStale(c) == ~c.some \/ c.val.version.some

\* a switch that waits for a route to ask for a sidebar
SwitchSidebarRequests_lazy(c, n) == {}

\* a switch that asks for the sidebar of the next version
SwitchSidebarRequests_next(c, n) ==
    IF SidebarStale(c) THEN {SidebarRequest(n + 1, Some("next"))} ELSE {}

\* lines 76-80: the requests `switch` spawns, n requests having been started
SwitchSidebarRequests(c, n) ==
    IF SidebarStale(c) THEN {SidebarRequest(n + 1, None)} ELSE {}

\* a closure that asks for the route's sidebar on every run
ViewSidebarRequests_always(r, c, n) ==
    IF RequiresSidebar(r) THEN {SidebarRequest(n + 1, ReqVersion(r))} ELSE {}

\* lines 82-162: the sidebar requests a run of the view closure starts
ViewSidebarRequests(r, c, n) == {}

\* a signal created inside the closure: every run starts from None
CacheAfterNav_recreated(c) == None

\* line 74: the signal is created once, outside the closure, so a run of
\* the closure leaves its value as it is
CacheAfterNav(c) == c

\* line 78: cached_sidebar_data.set(Some((None, get_sidebar(None).await)))
SidebarEntry(f) == Some([version |-> None, data |-> SidebarDataOf(f.url)])

----------------------------------------------------------------------------
(* Panics *)

\* where docs_preload and get_sidebar panic: send() is Err (unwrap, lines 48
\* and 64), text() is Err (todo!, lines 53 and 69), the text is no JSON
\* (unwrap, lines 50 and 66), the JSON is not the type (unwrap, lines 51, 67)
FailKinds == {"send", "text", "json", "deserialize"}

\* a request whose future is still polled: that of the live resource
Live(f) == f.inst = cur

\* the resource value after request f resolved with a page
Commit(f, d) == IF Live(f) THEN Some(Page(f.url, f.inst)) ELSE d

\* a request that is sent again when it has failed
Unsettled_retry(fetches, f) == {f}

\* of the resolved request f nothing stays outstanding: docs_preload sends
\* one request and is not called again
Unsettled(fetches, f) == {}

Op(op, inst, kind) == [op |-> op, inst |-> inst, kind |-> kind]

----------------------------------------------------------------------------
(* The program *)

\* the paths a session visits
NavPaths ==
    { << >>, <<"docs", "a", "a">>, <<"docs", "v1", "a", "a">>,
      <<"news">>, <<"news", "a">>, <<"news", "v1">>, <<"versions">>, <<"a">> }

RECURSIVE PathsOfLen(_)
PathsOfLen(n) ==
    IF n = 0 THEN { << >> }
    ELSE {Append(p, s) : p \in PathsOfLen(n - 1), s \in Seg}

AllPaths == UNION {PathsOfLen(n) : n \in 0..MaxSegs}

\* the state after sycamore::render(App) with the location at path p:
\* Router calls switch once, and the closure runs for the first route
Mounted(p) ==
    LET r == match_route(p)
        first == SwitchSidebarRequests(None, 0)
        more == ViewSidebarRequests(r, None, Cardinality(first))
    IN  /\ url = p
        /\ route = r
        /\ made = IF HasDocument(r) THEN 1 ELSE 0
        /\ cur = IF HasDocument(r) THEN 1 ELSE 0
        /\ data = FreshResource(None)
        /\ docFetches = DocRequests(r, 1)
        /\ cached_sidebar_data = None
        /\ sidebarFetches = first \cup more
        /\ sidebarStarted = Cardinality(first \cup more)
        /\ crashed = FALSE
        /\ view = Render(r, FreshResource(None), None)
        /\ navs = 0
        /\ lastOp = Op("Mount", 0, "")
        /\ lastEnsure = IF RequiresSidebar(r)
                        THEN Some([v |-> ReqVersion(r), prev |-> None,
                                   started |-> Cardinality(first \cup more)])
                        ELSE None

Init == \E p \in NavPaths : Mounted(p)

\* a route change: the route memo changes and the view closure runs again
Navigate(p) ==
    LET r == match_route(p)
        i == made + 1
        new == ViewSidebarRequests(r, cached_sidebar_data, sidebarStarted)
    IN  /\ ~crashed
        /\ navs < MaxNav
        /\ url' = p
        /\ route' = r
        /\ navs' = navs + 1
        /\ made' = IF HasDocument(r) THEN i ELSE made
        /\ cur' = IF HasDocument(r) THEN i ELSE 0
        /\ data' = FreshResource(data)
        /\ docFetches' = docFetches \cup DocRequests(r, i)
        /\ sidebarFetches' = sidebarFetches \cup new
        /\ sidebarStarted' = sidebarStarted + Cardinality(new)
        /\ cached_sidebar_data' = CacheAfterNav(cached_sidebar_data)
        /\ crashed' = crashed
        /\ view' = Render(r, data', cached_sidebar_data')
        /\ lastOp' = Op("Navigate", cur', "")
        /\ lastEnsure' = IF RequiresSidebar(r)
                         THEN Some([v |-> ReqVersion(r),
                                    prev |-> IF lastEnsure.some
                                             THEN Some(lastEnsure.val.v) ELSE None,
                                    started |-> Cardinality(new)])
                         ELSE lastEnsure

\* a docs_preload request resolves with a page that decodes
DocFetchOk(f) ==
    /\ ~crashed
    /\ f \in docFetches
    /\ docFetches' = docFetches \ {f}
    /\ data' = Commit(f, data)
    /\ view' = Render(route, data', cached_sidebar_data)
    /\ lastOp' = Op("DocOk", f.inst, "")
    /\ UNCHANGED <<url, route, made, cur, cached_sidebar_data, sidebarFetches,
                   sidebarStarted, crashed, navs, lastEnsure>>

\* a docs_preload request fails in one of the four ways: the future of the
\* live resource panics; that of a disposed resource is no longer polled
DocFetchFail(f, kind) ==
    /\ ~crashed
    /\ f \in docFetches
    /\ docFetches' = (docFetches \ {f}) \cup Unsettled(docFetches, f)
    /\ crashed' = Live(f)
    /\ lastOp' = Op("DocFail", f.inst, kind)
    /\ UNCHANGED <<url, route, made, cur, data, cached_sidebar_data, sidebarFetches,
                   sidebarStarted, view, navs, lastEnsure>>

\* the get_sidebar request of the task spawned by switch resolves
SidebarFetchOk(f) ==
    /\ ~crashed
    /\ f \in sidebarFetches
    /\ sidebarFetches' = sidebarFetches \ {f}
    /\ cached_sidebar_data' = SidebarEntry(f)
    /\ view' = Render(route, data, cached_sidebar_data')
    /\ lastOp' = Op("SidebarOk", f.id, "")
    /\ UNCHANGED <<url, route, made, cur, data, docFetches, sidebarStarted,
                   crashed, navs, lastEnsure>>

\* the get_sidebar request fails: the task, spawned on the scope of switch,
\* panics
SidebarFetchFail(f, kind) ==
    /\ ~crashed
    /\ f \in sidebarFetches
    /\ sidebarFetches' = sidebarFetches \ {f}
    /\ crashed' = TRUE
    /\ lastOp' = Op("SidebarFail", f.id, kind)
    /\ UNCHANGED <<url, route, made, cur, data, docFetches, cached_sidebar_data,
                   sidebarStarted, view, navs, lastEnsure>>

Next ==
    \/ \E p \in NavPaths : Navigate(p)
    \/ \E f \in docFetches : DocFetchOk(f)
    \/ \E f \in docFetches, kind \in FailKinds : DocFetchFail(f, kind)
    \/ \E f \in sidebarFetches : SidebarFetchOk(f)
    \/ \E f \in sidebarFetches, kind \in FailKinds : SidebarFetchFail(f, kind)

Spec == Init /\ [][Next]_vars

----------------------------------------------------------------------------
(* The wide specification: the first render at every path of up to MaxSegs
   segments, and get_sidebar called with every version *)

Versions == {None} \cup {Some(s) : s \in Seg}

\* get_sidebar(version), lines 58-64: the request for the url of the version
CallGetSidebar(version) ==
    /\ ~crashed
    /\ sidebarStarted < 1 + MaxSidebarCalls
    /\ sidebarFetches' = sidebarFetches \cup {SidebarRequest(sidebarStarted + 1, version)}
    /\ sidebarStarted' = sidebarStarted + 1
    /\ lastOp' = Op("GetSidebar", sidebarStarted + 1, "")
    /\ UNCHANGED <<url, route, made, cur, data, docFetches, cached_sidebar_data,
                   crashed, view, navs, lastEnsure>>

InitWide == \E p \in AllPaths : Mounted(p)

NextWide == \E version \in Versions : CallGetSidebar(version)

WideSpec == InitWide /\ [][NextWide]_vars

----------------------------------------------------------------------------
(* Claims *)

\* C1: after navigating r1 then r2, under every order of fetch completions,
\* the document in the current resource and in the view is the one fetched
\* for the current route by the current resource; the result of a
\* superseded fetch is never written into it and never rendered.
C1_NoStaleDocument ==
    /\ data.some =>
          /\ HasDocument(route)
          /\ data.val.by = cur
          /\ data.val.from = DocUrl(route)
    /\ view.kind = "Content" =>
          /\ view.doc.some
          /\ view.doc.val.by = cur
          /\ view.doc.val.from = DocUrl(route)

\* r2's page is in place and r1's request has resolved after it
C1_Witness ==
    /\ lastOp.op = "DocOk"
    /\ lastOp.inst < cur
    /\ data.some
    /\ data.val.by = cur
    /\ view.kind = "Content"

\* C2: whenever a document is shown together with a sidebar, the cached
\* sidebar entry is tagged with the version the current route asks for.
C2_SidebarVersionMatches ==
    (view.kind = "Content" /\ view.sidebar.some) =>
        /\ cached_sidebar_data.some
        /\ cached_sidebar_data.val.version = ReqVersion(route)

\* C3: two entries in a row into routes asking for the same sidebar version
\* start at most one sidebar request between them, and an entry that finds
\* the cache tagged with its version starts none and leaves the cache alone.
C3_EnsureOnce ==
    [][ (navs' = navs + 1 /\ RequiresSidebar(route')) =>
          LET v == ReqVersion(route')
              n == sidebarStarted' - sidebarStarted
          IN  /\ (lastEnsure.some /\ lastEnsure.val.v = v) =>
                     lastEnsure.val.started + n <= 1
              /\ (cached_sidebar_data.some /\ cached_sidebar_data.val.version = v) =>
                     /\ n = 0
                     /\ sidebarFetches' = sidebarFetches
                     /\ cached_sidebar_data' = cached_sidebar_data ]_vars

\* the second of two entries asking for the default sidebar found it cached,
\* and one request was started in all
C3_Witness ==
    /\ lastOp.op = "Navigate"
    /\ lastEnsure.some
    /\ lastEnsure.val.prev = Some(lastEnsure.val.v)
    /\ cached_sidebar_data.some
    /\ cached_sidebar_data.val.version = lastEnsure.val.v
    /\ sidebarStarted = 1

\* the version the cache holds or is being filled with differs from v
HoldsOtherVersion(v) ==
    \/ cached_sidebar_data.some /\ cached_sidebar_data.val.version # v
    \/ \E f \in sidebarFetches : f.version # v

\* C4: entering a route that asks for a version other than the one cached
\* (or being fetched) starts a request for that version's sidebar path, and
\* a resolved request leaves the cache tagged with the version it fetched.
C4_VersionChangeRefetches ==
    [][ /\ (navs' = navs + 1 /\ RequiresSidebar(route')
              /\ HoldsOtherVersion(ReqVersion(route'))) =>
            \E f \in sidebarFetches' \ sidebarFetches :
                f.url = get_sidebar_url(ReqVersion(route'))
        /\ (lastOp'.op = "SidebarOk") =>
            \A f \in sidebarFetches \ sidebarFetches' :
                cached_sidebar_data' = Some([version |-> f.version,
                                             data |-> SidebarDataOf(f.url)]) ]_vars

\* C5: a failed document fetch does not crash the program (the resource is
\* Failed and a later navigation can still reach Ready).
C5_FailureIsNotACrash ==
    lastOp.op = "DocFail" => ~crashed

\* C6: a failed sidebar fetch leaves the cache as it was and the program
\* running.
C6_SidebarFailureKeepsCache ==
    [][ lastOp'.op = "SidebarFail" =>
          /\ cached_sidebar_data' = cached_sidebar_data
          /\ ~crashed' ]_vars

\* C7: a document fetch failure changes nothing of the sidebar cache and
\* does not stop the sidebar from being served; a sidebar fetch failure
\* changes nothing of the current document resource and does not stop it
\* from being served.
C7_FailuresContained ==
    [][ /\ lastOp'.op = "DocFail" =>
              /\ cached_sidebar_data' = cached_sidebar_data
              /\ sidebarFetches' = sidebarFetches
              /\ ~crashed'
        /\ lastOp'.op = "SidebarFail" =>
              /\ data' = data
              /\ docFetches' = docFetches
              /\ ~crashed' ]_vars

\* C8: on Docs and VersionedDocs the content is shown exactly when the
\* document is ready and the cache holds an entry, and the empty view
\* otherwise; on Post the content is shown exactly when the document is
\* ready, whatever the cache.
C8_ViewReadiness ==
    /\ RequiresSidebar(route) =>
          /\ view.kind = "Content" <=> (data.some /\ cached_sidebar_data.some)
          /\ view.kind # "Content" => view = Empty
    /\ route.tag = "Post" =>
          /\ view.kind = "Content" <=> data.some
          /\ view.kind # "Content" => view = Empty

\* a docs route whose document is ready before any sidebar is cached
C8_Witness ==
    /\ RequiresSidebar(route)
    /\ data.some
    /\ ~cached_sidebar_data.some
    /\ view = Empty

\* the route of a path, by the grammar of the route table
ExpectedRoute(p) ==
    CASE Len(p) = 0 -> Route("Index", << >>)
      [] Len(p) = 3 /\ p[1] = "docs" -> Route("Docs", <<p[2], p[3]>>)
      [] Len(p) = 4 /\ p[1] = "docs" -> Route("VersionedDocs", <<p[2], p[3], p[4]>>)
      [] Len(p) = 1 /\ p[1] = "news" -> Route("NewsIndex", << >>)
      [] Len(p) = 2 /\ p[1] = "news" -> Route("Post", <<p[2]>>)
      [] Len(p) = 1 /\ p[1] = "versions" -> Route("Versions", << >>)
      [] OTHER -> Route("NotFound", << >>)

\* C9: every path resolves to the one variant of the grammar; a docs path
\* with three parameters is never Docs, a /news/{s} path never NewsIndex.
C9_Resolver ==
    /\ route = ExpectedRoute(url)
    /\ (Len(url) = 4 /\ url[1] = "docs") => route.tag # "Docs"
    /\ (Len(url) = 2 /\ url[1] = "news") => route.tag # "NewsIndex"

\* a versioned path whose version is itself the word docs
C9_Witness ==
    /\ url = <<"docs", "docs", "a", "v1">>
    /\ route = Route("VersionedDocs", <<"docs", "a", "v1">>)

\* "/" before every segment
RECURSIVE Slashed(_)
Slashed(segs) ==
    IF segs = << >> THEN "" ELSE "/" \o Head(segs) \o Slashed(Tail(segs))

ExpectedDocUrl(r) ==
    CASE r.tag = "Post" -> Slashed(<<"static", "posts">> \o r.args) \o ".json"
      [] OTHER -> Slashed(<<"static", "docs">> \o r.args) \o ".json"

ExpectedSidebarUrl(version) ==
    Slashed(<<"static", "docs">>
            \o (IF version.some THEN <<version.val>> ELSE << >>)
            \o <<"sidebar.json">>)

\* C10: the document request of a route is for the path built from the
\* route's own segments, and a sidebar request for a version is for
\* /static/docs/{v}/sidebar.json, or /static/docs/sidebar.json for None.
C10_FetchKeys ==
    /\ HasDocument(route) =>
          \E f \in docFetches : f.inst = cur /\ f.url = ExpectedDocUrl(route)
    /\ \A f \in docFetches : f.inst = cur => f.url = ExpectedDocUrl(route)
    /\ \A f \in sidebarFetches : f.url = ExpectedSidebarUrl(f.version)

\* a versioned document request and a versioned sidebar request in flight
C10_Witness ==
    /\ route.tag = "VersionedDocs"
    /\ \E f \in docFetches : f.url = "/static/docs/v1/a/docs.json"
    /\ \E f \in sidebarFetches : f.url = "/static/docs/v1/sidebar.json"

C12_OneRequestPerNavigation ==
    [][ /\ (navs' = navs + 1 /\ HasDocument(route')) =>
              /\ made' = made + 1
              /\ docFetches \subseteq docFetches'
              /\ docFetches' \ docFetches = {[inst |-> made', url |-> DocUrl(route')]}
        /\ (navs' = navs + 1 /\ ~HasDocument(route')) =>
              /\ made' = made
              /\ docFetches' = docFetches
        /\ (navs' = navs) =>
              /\ made' = made
              /\ docFetches' \subseteq docFetches
        /\ (lastOp'.op = "DocFail") =>
              ~\E f \in docFetches' : f.inst = lastOp'.inst ]_vars

\* the request of a left route has failed, a later route has its own
\* request outstanding, and nothing was sent again
C12_Witness ==
    /\ lastOp.op = "DocFail"
    /\ ~crashed
    /\ made = 2
    /\ docFetches = {[inst |-> 2, url |-> DocUrl(route)]}

\* C13: at most one sidebar request is in flight.
C13_OneSidebarInFlight ==
    Cardinality(sidebarFetches) <= 1

\* the request is still in flight after route changes between sidebar routes
C13_Witness ==
    /\ Cardinality(sidebarFetches) = 1
    /\ navs >= 2
    /\ lastEnsure.some
    /\ lastEnsure.val.prev.some
    /\ lastEnsure.val.prev.val # lastEnsure.val.v

\* C14: a resource starts with no value; while it is the live resource its
\* value changes only from none to a page, never back and never to another
\* page; a value of none after a page arises only by a route change.
C14_ResourceLifecycle ==
    [][ /\ (cur' # cur) => (navs' = navs + 1 /\ ~data'.some)
        /\ (cur' = cur /\ data.some) => data' = data
        /\ (cur' = cur /\ data' # data) =>
              /\ ~data.some
              /\ data'.some
              /\ lastOp'.op = "DocOk"
        /\ (data.some /\ ~data'.some) => navs' = navs + 1 ]_vars

\* a second resource has gone from pending to ready
C14_Witness ==
    /\ cur = 2
    /\ data.some
    /\ lastOp.op = "DocOk"
    /\ lastOp.inst = 2

----------------------------------------------------------------------------
(* The fair specification: a request of the live resource, and the sidebar
   request, that can resolve with a payload does so; requests of resources
   left behind may stay outstanding for ever *)

LiveDocFetchOk == \E f \in docFetches : Live(f) /\ DocFetchOk(f)

AnySidebarFetchOk == \E f \in sidebarFetches : SidebarFetchOk(f)

NextFair ==
    \/ \E p \in NavPaths : navs < MaxNavFair /\ Navigate(p)
    \/ \E f \in docFetches : DocFetchOk(f)
    \/ \E f \in docFetches, kind \in FailKinds : DocFetchFail(f, kind)
    \/ \E f \in sidebarFetches : SidebarFetchOk(f)
    \/ \E f \in sidebarFetches, kind \in FailKinds : SidebarFetchFail(f, kind)

FairSpec ==
    /\ Init
    /\ [][NextFair]_vars
    /\ WF_vars(LiveDocFetchOk)
    /\ WF_vars(AnySidebarFetchOk)

\* C15: once the route stays at a document route and neither its document
\* request nor the sidebar request fails, the content of the route is
\* rendered, whether or not the requests of earlier routes ever resolve.
C15_ContentEventually ==
    \A i \in 1..(MaxNavFair + 1) :
        (cur = i /\ ~crashed) ~> (cur # i \/ crashed \/ view.kind = "Content")

\* content of a docs route is shown while the request of a route left
\* before is still outstanding
C15_Witness ==
    /\ RequiresSidebar(route)
    /\ view.kind = "Content"
    /\ view.doc.val.by = cur
    /\ \E f \in docFetches : f.inst < cur

\* C16: a document payload that does not decode ends like a transport
\* failure: the program runs on with the resource failed, and no content
\* is rendered for it.
C16_DecodeFailureIsFailed ==
    (lastOp.op = "DocFail" /\ lastOp.kind \in {"json", "deserialize"}) =>
        /\ ~crashed
        /\ lastOp.inst = cur => view.kind # "Content"

\* C17: a cache that holds an entry holds one in every later state: no
\* route change, fetch completion or fetch failure returns it to absent.
C17_CacheStaysFilled ==
    [][ /\ cached_sidebar_data.some => cached_sidebar_data'.some
        /\ lastOp'.op = "SidebarOk" => cached_sidebar_data'.some ]_vars

\* the entry has outlived two route changes and a dropped document failure
C17_Witness ==
    /\ cached_sidebar_data.some
    /\ navs >= 2
    /\ lastOp.op = "DocFail"
    /\ ~crashed

\* C18: the tag of the cached entry is the version whose sidebar path its
\* data was read from: None exactly for /static/docs/sidebar.json.
C18_TagMatchesData ==
    cached_sidebar_data.some =>
        /\ cached_sidebar_data.val.data.from =
               ExpectedSidebarUrl(cached_sidebar_data.val.version)
        /\ ~cached_sidebar_data.val.version.some <=>
               cached_sidebar_data.val.data.from = "/static/docs/sidebar.json"

\* the default entry is cached while a versioned route is shown
C18_Witness ==
    /\ cached_sidebar_data.some
    /\ ~cached_sidebar_data.val.version.some
    /\ cached_sidebar_data.val.data.from = "/static/docs/sidebar.json"
    /\ route.tag = "VersionedDocs"
    /\ lastOp.op = "SidebarOk"

\* every document route over the segment names
DocRoutes ==
    {Route("Docs", <<a, b>>) : a \in Seg, b \in Seg}
    \cup {Route("VersionedDocs", <<v, a, b>>) : v \in Seg, a \in Seg, b \in Seg}
    \cup {Route("Post", <<n>>) : n \in Seg}

\* C19: no document route other than the current one has the url of the
\* current route's document request (the segments hold no "/").
C19_FetchKeyInjective ==
    HasDocument(route) =>
        \A f \in docFetches : \A r \in DocRoutes :
            DocUrl(r) = f.url => r = route

\* a versioned route whose url differs from that of the Docs route with the
\* same last two segments and of the Docs route with the same first two
C19_Witness ==
    /\ route = Route("VersionedDocs", <<"a", "a", "a">>)
    /\ \E f \in docFetches :
          /\ f.url = "/static/docs/a/a/a.json"
          /\ f.url # DocUrl(Route("Docs", <<"a", "a">>))

====
